---------------------------- MODULE Spec2Model ----------------------------
(* Model of js/main.js: the page behaviour controller of the site.        *)
(* The dynamic text (calculateYOE, calculateCrunchrDuration), the         *)
(* intersection observer, updateActiveNav and the click / key / scroll    *)
(* handlers, with the DOM classes they toggle as the state.               *)
(* Strings are sequences of one-character strings, so that concatenation  *)
(* and number formatting are computed and not assumed.                    *)
EXTENDS Integers, Sequences, FiniteSets, TLC

VARIABLES
    now,            \* the value new Date() returns while the script runs
    present,        \* which optional elements the document contains
    yoeText,        \* textContent of #yoe
    crunchrText,    \* textContent of #crunchr-duration
    yearText,       \* textContent of #year
    layout,         \* sections, nav links and heights of the document
    location,       \* window.location: pathname, search and hash
    anchorHref,     \* href of .logo and of .corner-logo where it is a link
    isHomePage,     \* the isHomePage the logo listener captured (line 206)
    scrollY,        \* window.scrollY
    active,         \* indexes of the nav links that carry "active"
    visible,        \* indexes of the sections that carry "visible"
    terminalHidden, \* #work-terminal carries "hidden"
    expanded,       \* .footer-origin carries "expanded"
    pressed,        \* .corner-logo carries "pressed"
    vHeld,          \* an accepted "v" keydown has had no "v" keyup yet
    hintHidden,     \* .scroll-hint carries "hidden"
    timers,         \* pending setTimeout callbacks, in firing order
    scrollTarget,   \* destination of a smooth scroll in progress
    fired,          \* the timer callback the last step ran, if any
    navRequested,   \* the URL of the navigation that has been started
    unloaded,       \* the navigation has replaced the document
    error           \* a handler has thrown

vars == <<now, present, yoeText, crunchrText, yearText, layout, location,
          anchorHref, isHomePage, scrollY, active, visible, terminalHidden,
          expanded, pressed, vHeld, hintHidden, timers, fired, scrollTarget,
          navRequested, unloaded, error>>

textVars == <<now, yoeText, crunchrText, yearText>>
\* What the load of the document fixes.
loadVars == <<textVars, present, layout, location, anchorHref, isHomePage>>
pageVars == <<layout, location, anchorHref, isHomePage, scrollY, active,
              visible, terminalHidden, expanded, pressed, vHeld, hintHidden,
              timers, fired, scrollTarget, navRequested, unloaded, error>>

-----------------------------------------------------------------------------
(* CONFIG *)

headerOffset == 100
scrollThreshold == 50
footnoteScrollDelay == 350
pressedDelay == 100

\* A Date is [year, month, day, ms]: local calendar fields, month 0-indexed,
\* ms the milliseconds since local midnight.
yoeStartDate == [year |-> 2024, month |-> 8, day |-> 10, ms |-> 0]
crunchrStartDate == [year |-> 2022, month |-> 11, day |-> 1, ms |-> 0]

-----------------------------------------------------------------------------
(* Bounds of the model *)

LastYear == 2026
MaxSections == 2
MaxLinks == 2
MaxTimers == 2

-----------------------------------------------------------------------------
(* Strings and number formatting *)

Digit(d) == CASE d = 0 -> "0" [] d = 1 -> "1" [] d = 2 -> "2" [] d = 3 -> "3"
              [] d = 4 -> "4" [] d = 5 -> "5" [] d = 6 -> "6" [] d = 7 -> "7"
              [] d = 8 -> "8" [] d = 9 -> "9"

RECURSIVE NatToString(_)
NatToString(n) ==
    IF n < 10 THEN <<Digit(n)>>
    ELSE NatToString(n \div 10) \o <<Digit(n % 10)>>

\* Number-to-string conversion of an integer, as "+" and the DOM apply it.
NumberToString(n) ==
    IF n < 0 THEN <<"-">> \o NatToString(-n) ELSE NatToString(n)

\* join(" ") without the filter: an empty part keeps its separator.
JoinUnfiltered(a, b) == a \o <<" ">> \o b

\* [a, b].filter(Boolean).join(" ")
FilterJoin(a, b) ==
    IF a = <<>> THEN b
    ELSE IF b = <<>> THEN a
    ELSE a \o <<" ">> \o b

-----------------------------------------------------------------------------
(* Dates *)

MsPerDay == 86400000
MsPerQuarterDay == 21600000
QuarterDaysPerYear == 1461

IsLeapYear(y) == (y % 4 = 0 /\ y % 100 # 0) \/ y % 400 = 0

DaysInMonth(y, m) ==
    IF m = 1 THEN (IF IsLeapYear(y) THEN 29 ELSE 28)
    ELSE IF m \in {3, 5, 8, 10} THEN 30 ELSE 31

RECURSIVE DaysBeforeMonth(_, _)
DaysBeforeMonth(y, m) ==
    IF m = 0 THEN 0 ELSE DaysBeforeMonth(y, m - 1) + DaysInMonth(y, m - 1)

LeapYearsBefore(y) == (y - 1) \div 4 - (y - 1) \div 100 + (y - 1) \div 400

\* Day number of a Date on the proleptic Gregorian calendar (1 Jan 1970 = 0).
DayNumber(d) ==
    365 * (d.year - 1970) + (LeapYearsBefore(d.year) - LeapYearsBefore(1970))
      + DaysBeforeMonth(d.year, d.month) + (d.day - 1)

\* a - b of two Dates, in milliseconds, kept as [days, ms] with
\* 0 <= ms < MsPerDay because the product does not fit the checker's
\* integers: the difference is days * MsPerDay + ms. Local time is taken
\* to have a fixed offset from UTC.
DateDiff(a, b) ==
    IF a.ms >= b.ms
    THEN [days |-> DayNumber(a) - DayNumber(b), ms |-> a.ms - b.ms]
    ELSE [days |-> DayNumber(a) - DayNumber(b) - 1,
          ms |-> a.ms - b.ms + MsPerDay]

\* The same with a year of 365 days.
YoeWrongYearLength(x) == (x.days * 4 + x.ms \div MsPerQuarterDay) \div 1460

\* Math.floor(x / (1000 * 60 * 60 * 24 * 365.25)) of a difference x. A year
\* of 365.25 days is 1461 quarter days, and the part of x below a quarter
\* day cannot carry the quotient over an integer. The double division of
\* the script is exact enough for this: a quotient that is not an integer
\* differs from one by more than 1e-11, far above the rounding error.
FloorYears(x) ==
    (x.days * 4 + x.ms \div MsPerQuarterDay) \div QuarterDaysPerYear

calculateYOE(t) ==
    LET additionalMs == DateDiff(t, yoeStartDate)
        totalYears == 5 + FloorYears(additionalMs)
    IN  NumberToString(totalYears) \o <<"+">>

\* The year component without the borrow of line 76.
crunchrYearsNoBorrow(t) == t.year - crunchrStartDate.year

\* The year and month components after the borrow (lines 72-78).
crunchrYears(t) ==
    IF t.month - crunchrStartDate.month < 0
    THEN t.year - crunchrStartDate.year - 1
    ELSE t.year - crunchrStartDate.year

crunchrMonths(t) ==
    IF t.month - crunchrStartDate.month < 0
    THEN t.month - crunchrStartDate.month + 12
    ELSE t.month - crunchrStartDate.month

calculateCrunchrDuration(t) ==
    LET years == crunchrYears(t)
        months == crunchrMonths(t)
        yearStr == IF years > 0 THEN NumberToString(years) \o <<"y", "r">>
                   ELSE <<>>
        monthStr == IF months > 0 THEN NumberToString(months) \o <<"m", "o">>
                    ELSE <<>>
    IN  FilterJoin(yearStr, monthStr)

-----------------------------------------------------------------------------
(* Page layout *)

\* getAttribute("id") of a section without the attribute.
NoId == <<"null">>

SeqsUpTo(S, n) == UNION {[1..k -> S] : k \in 0..n}

Max(a, b) == IF a >= b THEN a ELSE b

\* document.querySelectorAll("section[id]") (line 125)
sectionsWithId(L) == SelectSeq(L.sections, LAMBDA s : s.id # NoId)

\* The largest scroll position the document allows.
MaxScrollY(L) == Max(0, L.bodyHeight - L.innerHeight)

ScrollPositions == {0, 50, 200, 249, 250, 300}

ScrollYs(L) == {y \in ScrollPositions : y <= MaxScrollY(L)}

-----------------------------------------------------------------------------
(* updateActiveNav *)

\* The bottom test without scrollThreshold.
BottomReachedNoThreshold(L, y) == L.innerHeight + y >= L.bodyHeight

\* lines 129-131
BottomReached(L, y) ==
    L.innerHeight + y >= L.bodyHeight - scrollThreshold

\* The span test with the end of the section included.
SpanContainsClosed(s, scrollPos) ==
    scrollPos >= s.top /\ scrollPos <= s.top + s.height

\* line 154
SpanContains(s, scrollPos) ==
    scrollPos >= s.top /\ scrollPos < s.top + s.height

\* lines 155-160: every link loses "active", the links whose href is
\* "#" + sectionId get it back.
LinksOf(navLinks, sectionId) ==
    {i \in DOMAIN navLinks : navLinks[i] = <<"#">> \o sectionId}

\* The forEach over the sections without the remove of line 156: the links
\* of a matching section are added to those that carry "active".
RECURSIVE SectionLoopAdds(_, _, _, _, _)
SectionLoopAdds(secs, navLinks, scrollPos, act, activeFound) ==
    IF secs = <<>> THEN [active |-> act, activeFound |-> activeFound]
    ELSE IF SpanContains(Head(secs), scrollPos)
         THEN SectionLoopAdds(Tail(secs), navLinks, scrollPos,
                              act \cup LinksOf(navLinks, Head(secs).id), TRUE)
         ELSE SectionLoopAdds(Tail(secs), navLinks, scrollPos, act,
                              activeFound)

\* lines 148-163: the forEach over the sections, from the active set act.
RECURSIVE SectionLoop(_, _, _, _, _)
SectionLoop(secs, navLinks, scrollPos, act, activeFound) ==
    IF secs = <<>> THEN [active |-> act, activeFound |-> activeFound]
    ELSE IF SpanContains(Head(secs), scrollPos)
         THEN SectionLoop(Tail(secs), navLinks, scrollPos,
                          LinksOf(navLinks, Head(secs).id), TRUE)
         ELSE SectionLoop(Tail(secs), navLinks, scrollPos, act, activeFound)

\* updateActiveNav without the clearing of line 135.
UpdateKeepsStale(act, L, y) ==
    LET scrollPos == y + headerOffset
        navLinks == L.navLinks
        sections == sectionsWithId(L)
    IN  IF BottomReached(L, y)
        THEN act \cup (IF Len(navLinks) > 0 THEN {Len(navLinks)} ELSE {})
        ELSE IF Len(sections) > 0 /\ scrollPos < sections[1].top
        THEN {}
        ELSE LET r == SectionLoop(sections, navLinks, scrollPos, act, FALSE)
             IN  IF ~r.activeFound THEN {} ELSE r.active

\* The links that carry "active" after updateActiveNav has run at scroll
\* position y, from the set act of links that carried it before.
updateActiveNav(act, L, y) ==
    LET scrollPos == y + headerOffset
        navLinks == L.navLinks
        sections == sectionsWithId(L)
    IN  IF BottomReached(L, y)
        THEN (IF Len(navLinks) > 0 THEN {Len(navLinks)} ELSE {})
        ELSE IF Len(sections) > 0 /\ scrollPos < sections[1].top
        THEN {}
        ELSE LET r == SectionLoop(sections, navLinks, scrollPos, act, FALSE)
             IN  IF ~r.activeFound THEN {} ELSE r.active

\* Scroll listeners of which the second shows the hint again above the
\* threshold.
ScrollHandlersHintFollows(y) ==
    /\ scrollY' = y
    /\ active' = updateActiveNav(active, layout, y)
    /\ hintHidden' = (present.hint /\ y > scrollThreshold)

\* Both scroll listeners (lines 171 and 266-275) on one scroll event.
ScrollHandlers(y) ==
    /\ scrollY' = y
    /\ active' = updateActiveNav(active, layout, y)
    /\ hintHidden' = IF present.hint /\ y > scrollThreshold
                     THEN TRUE ELSE hintHidden

-----------------------------------------------------------------------------
(* Dynamic content (lines 87-101) *)

DynamicContent(t) ==
    /\ yoeText' = IF present'.yoe THEN calculateYOE(t) ELSE <<>>
    /\ crunchrText' = IF present'.crunchr THEN calculateCrunchrDuration(t)
                      ELSE <<>>
    /\ yearText' = IF present'.year THEN NumberToString(t.year) ELSE <<>>

-----------------------------------------------------------------------------
(* Timers: the pending setTimeout callbacks in the order they will fire.   *)
(* A timer is near when no more than pressedDelay, the shortest delay of   *)
(* the script, is left of its delay. A new timer fires after every pending *)
(* timer that is due no later: after the near ones and after those whose   *)
(* whole delay is no longer than its own.                                  *)

Timer(kind, delay) ==
    [kind |-> kind, delay |-> delay, near |-> delay <= pressedDelay]

InsertAt(q, p, t) == SubSeq(q, 1, p - 1) \o <<t>> \o SubSeq(q, p, Len(q))

DueNoLater(q, t) == {i \in DOMAIN q : q[i].near \/ q[i].delay <= t.delay}

Position(q, t) ==
    IF DueNoLater(q, t) = {} THEN 1
    ELSE 1 + (CHOOSE i \in DueNoLater(q, t) :
                 \A j \in DueNoLater(q, t) : j <= i)

setTimeout(kind, delay) ==
    timers' = InsertAt(timers, Position(timers, Timer(kind, delay)),
                       Timer(kind, delay))

-----------------------------------------------------------------------------
(* The states after the script has run *)

Ids == {<<"a">>, <<"b">>}
Hrefs == {<<"#", "a">>, <<"#", "b">>}
Tops == {150, 300}
Heights == {150, 300}
BodyHeights == {400, 800}
InnerHeights == {500}

\* A section: its id attribute, offsetTop, offsetHeight and whether the
\* markup gives it the "visible" class.
Sections ==
    [id : Ids \cup {NoId}, top : Tops, height : Heights, visible : {FALSE}]

Layouts ==
    [sections : SeqsUpTo(Sections, MaxSections),
     navLinks : SeqsUpTo(Hrefs, MaxLinks),
     bodyHeight : BodyHeights,
     innerHeight : InnerHeights]

Section(id, top, height, vis) ==
    [id |-> id, top |-> top, height |-> height, visible |-> vis]

\* The layouts the handlers other than the scroll listener are explored on.
HomeLayout ==
    [sections |-> <<Section(<<"a">>, 150, 150, TRUE),
                    Section(<<"b">>, 300, 300, FALSE)>>,
     navLinks |-> <<<<"#", "a">>, <<"#", "b">>>>,
     bodyHeight |-> 800, innerHeight |-> 500]

Elements == {"yoe", "crunchr", "year", "terminal", "closeButton",
             "footerOrigin", "logo", "cornerLogo", "hint"}

AllPresent == [e \in Elements |-> TRUE]

\* The documents the handlers are explored on: all elements present, one
\* of the elements with a handler absent, or all of them absent. The close
\* button is looked up inside the terminal (line 178).
Handled == {"terminal", "closeButton", "footerOrigin", "logo", "cornerLogo",
            "hint"}

Presences ==
    {f \in [Elements -> BOOLEAN] :
        /\ f.yoe /\ f.crunchr /\ f.year
        /\ f.closeButton => f.terminal
        /\ \/ Cardinality({e \in Handled \ {"closeButton"} : ~f[e]}) <= 1
           \/ \A e \in Handled : ~f[e]}

TextPresences ==
    {f \in [Elements -> BOOLEAN] :
        \A e \in Elements \ {"yoe", "crunchr", "year"} : f[e]}

Null == [tagName |-> "null", isContentEditable |-> FALSE]

Body == [tagName |-> "BODY", isContentEditable |-> FALSE]

ActiveElements ==
    {Null, Body,
     [tagName |-> "INPUT", isContentEditable |-> FALSE],
     [tagName |-> "TEXTAREA", isContentEditable |-> FALSE],
     [tagName |-> "DIV", isContentEditable |-> TRUE]}

\* window.location as sequences of pieces of the URL, so that endsWith is
\* a test of the last piece.
Origin == <<"https://site">>
Pathnames == {<<>>, <<"/">>, <<"/index.html">>, <<"/about.html">>}
Searches == {<<>>, <<"?from=", "/index.html">>}
Hashes == {<<>>, <<"#a">>}
Locations == [pathname : Pathnames, search : Searches, hash : Hashes]

HomeLocation == [pathname |-> <<"/">>, search |-> <<>>, hash |-> <<>>]
AboutLocation ==
    [pathname |-> <<"/about.html">>, search |-> <<>>, hash |-> <<>>]

\* window.location.href
Href(loc) == Origin \o loc.pathname \o loc.search \o loc.hash

endsWith(s, piece) == Len(s) > 0 /\ s[Len(s)] = piece

\* lines 206-210 and 247-251
IsHomePage(loc) ==
    \/ loc.pathname = <<"/">>
    \/ endsWith(loc.pathname, "/index.html")
    \/ loc.pathname = <<>>
    \/ endsWith(Href(loc), "/index.html")

\* The href of an element that is not a link, and the navigation when
\* none has been started.
NoHref == "none"
NoNavigation == "none"

\* The markup of .logo and .corner-logo: a link to some page, or no link.
AnchorHrefs ==
    [logo : {NoHref, "/", "/about.html"},
     cornerLogo : {NoHref, "/", "/about.html"}]

\* The markup the handlers are written for: .logo is a link to the home
\* page (line 218), .corner-logo is not a link (line 256).
SiteHrefs == [logo |-> "/", cornerLogo |-> NoHref]

Days == {1, 10, 15}
MsOfDay == {0, 21599999, 21600000, 43199999, 43200000}

Times ==
    [year : 2022..LastYear, month : 0..11, day : Days, ms : MsOfDay]

LoadTime == [year |-> 2025, month |-> 10, day |-> 5, ms |-> 0]

\* The page right after the script has run on a document with layout L at
\* scroll position y: updateActiveNav has run once (line 172), no handler
\* has.
PageLoaded(L, y, loc, hrefs) ==
    /\ layout = L
    /\ location = loc
    /\ anchorHref = hrefs
    /\ isHomePage = IsHomePage(loc)
    /\ scrollY = y
    /\ \E act \in SUBSET DOMAIN L.navLinks :
          active = updateActiveNav(act, L, y)
    /\ visible = {i \in DOMAIN L.sections : L.sections[i].visible}
    /\ terminalHidden = FALSE
    /\ expanded = FALSE
    /\ pressed = FALSE
    /\ vHeld = FALSE
    /\ hintHidden = FALSE
    /\ timers = <<>>
    /\ scrollTarget = "none"
    /\ fired = "none"
    /\ navRequested = NoNavigation
    /\ unloaded = FALSE
    /\ error = FALSE

TextLoaded(t, pr) ==
    /\ now = t
    /\ present = pr
    /\ yoeText = IF pr.yoe THEN calculateYOE(t) ELSE <<>>
    /\ crunchrText = IF pr.crunchr THEN calculateCrunchrDuration(t) ELSE <<>>
    /\ yearText = IF pr.year THEN NumberToString(t.year) ELSE <<>>

Init ==
    /\ \E pr \in Presences : TextLoaded(LoadTime, pr)
    /\ \E loc \in {HomeLocation, AboutLocation} :
          PageLoaded(HomeLayout, 0, loc, SiteHrefs)

-----------------------------------------------------------------------------
(* Handlers *)

\* No timer callback runs in the step.
NoCallback == fired' = "none"

\* The user scrolls the window to position y.
Scroll(y) ==
    /\ ~unloaded
    /\ y \in ScrollYs(layout) \ {scrollY}
    /\ ScrollHandlers(y)
    /\ NoCallback
    /\ UNCHANGED <<loadVars, vHeld, unloaded, visible,
                   terminalHidden, expanded, pressed, timers, scrollTarget,
                   navRequested, error>>

\* window.scrollTo({top, behavior: "smooth"}) records the destination.
scrollTo(target) == scrollTarget' = target

ScrollDestination(target) ==
    IF target = "top" THEN 0 ELSE MaxScrollY(layout)

\* A smooth scroll arrives at its destination.
SmoothScrollArrives ==
    /\ ~unloaded
    /\ scrollTarget # "none"
    /\ scrollTarget' = "none"
    /\ IF ScrollDestination(scrollTarget) # scrollY
       THEN ScrollHandlers(ScrollDestination(scrollTarget))
       ELSE UNCHANGED <<scrollY, active, hintHidden>>
    /\ NoCallback
    /\ UNCHANGED <<loadVars, vHeld, unloaded, visible,
                   terminalHidden, expanded, pressed, timers, navRequested,
                   error>>

\* An observer that also removes the class from entries not intersecting.
ObserverRemovesWhenOut(reported, intersecting) ==
    (visible \ reported) \cup intersecting

\* lines 109-115: the observer callback on entries for the sections
\* reported, of which those in intersecting have isIntersecting.
ObserverCallback(reported, intersecting) == visible \cup intersecting

\* The sections observe() was called on (lines 117-121): those without
\* "visible" when the script ran.
observed(L) == {i \in DOMAIN L.sections : ~L.sections[i].visible}

\* The observer reports entries for some observed sections.
Intersection(reported, intersecting) ==
    /\ ~unloaded
    /\ reported # {}
    /\ reported \subseteq observed(layout)
    /\ intersecting \subseteq reported
    /\ visible' = ObserverCallback(reported, intersecting)
    /\ NoCallback
    /\ UNCHANGED <<loadVars, vHeld, unloaded, scrollY, active,
                   terminalHidden, expanded, pressed, hintHidden, timers,
                   scrollTarget, navRequested, error>>

\* A close click that is not stopped and reaches a listener that toggles
\* "expanded".
CloseButtonClickBubbles ==
    /\ ~unloaded
    /\ present.terminal /\ present.closeButton
    /\ terminalHidden' = TRUE
    /\ expanded' = ~expanded
    /\ NoCallback
    /\ UNCHANGED <<loadVars, vHeld, unloaded, scrollY, active,
                   visible, pressed, hintHidden, timers,
                   scrollTarget, navRequested, error>>

\* lines 180-185
CloseButtonClick ==
    /\ ~unloaded
    /\ present.terminal /\ present.closeButton
    /\ terminalHidden' = TRUE
    /\ NoCallback
    /\ UNCHANGED <<loadVars, vHeld, unloaded, scrollY, active,
                   visible, expanded, pressed, hintHidden, timers,
                   scrollTarget, navRequested, error>>

\* The timer set on every click, without the test of line 192.
FooterAlwaysSchedules(e) == TRUE

\* line 192: the timer is set when the element carries "expanded" after
\* the toggle.
FooterSchedules(e) == e

\* A collapse that clears the pending scroll timers.
CollapseCancels(q) == SelectSeq(q, LAMBDA t : t.kind # "scrollToBottom")

\* lines 192-199: a click that collapses the element sets no timer and
\* clears none of the pending timers q.
AfterCollapse(q) == q

\* lines 189-201
FooterOriginClick ==
    /\ ~unloaded
    /\ present.footerOrigin
    /\ expanded' = ~expanded
    /\ IF FooterSchedules(expanded')
       THEN /\ Len(timers) < MaxTimers
            /\ setTimeout("scrollToBottom", footnoteScrollDelay)
       ELSE timers' = AfterCollapse(timers)
    /\ NoCallback
    /\ UNCHANGED <<loadVars, vHeld, unloaded, scrollY, active,
                   visible, terminalHidden, pressed, hintHidden, scrollTarget,
                   navRequested, error>>

\* A click whose default action is prevented whatever the view.
DefaultPrevented(hrefOfTarget, nav) == nav

\* The default action of a click that no listener has prevented: a link
\* is followed, which replaces the navigation nav started before, if any.
DefaultAction(hrefOfTarget, nav) ==
    IF hrefOfTarget = NoHref THEN nav ELSE hrefOfTarget

\* lines 205-219: on the home view the listener prevents the default
\* action; otherwise the click has its default action.
LogoClick ==
    /\ ~unloaded
    /\ present.logo
    /\ IF isHomePage
       THEN scrollTo("top") /\ UNCHANGED navRequested
       ELSE /\ navRequested' = DefaultAction(anchorHref.logo, navRequested)
            /\ UNCHANGED scrollTarget
    /\ NoCallback
    /\ UNCHANGED <<loadVars, vHeld, unloaded, scrollY, active,
                   visible, terminalHidden, expanded, pressed, hintHidden,
                   timers, error>>

\* line 256: window.location.href = "/"
HomeUrl == "/"

\* lines 245-262: isHomePage is computed anew from the location at the
\* click, and the listener does not prevent the default action.
CornerLogoClick ==
    /\ ~unloaded
    /\ present.cornerLogo
    /\ Len(timers) < MaxTimers
    /\ pressed' = TRUE
    /\ IF IsHomePage(location)
       THEN /\ scrollTo("top")
            /\ navRequested' =
                  DefaultAction(anchorHref.cornerLogo, navRequested)
       ELSE /\ navRequested' = DefaultAction(anchorHref.cornerLogo, HomeUrl)
            /\ UNCHANGED scrollTarget
    /\ setTimeout("removePressed", pressedDelay)
    /\ NoCallback
    /\ UNCHANGED <<loadVars, vHeld, unloaded, scrollY, active,
                   visible, terminalHidden, expanded, hintHidden, error>>

\* Time passes: of the first pending timer that is not near, no more than
\* pressedDelay is left.
TimeElapses ==
    /\ ~unloaded
    /\ \E i \in DOMAIN timers :
          /\ ~timers[i].near
          /\ \A j \in 1..(i - 1) : timers[j].near
          /\ timers' = [timers EXCEPT ![i].near = TRUE]
    /\ NoCallback
    /\ UNCHANGED <<loadVars, vHeld, unloaded, scrollY, active,
                   visible, terminalHidden, expanded, pressed, hintHidden,
                   scrollTarget, navRequested, error>>

\* The callback of the first pending timer runs (lines 193-198, 259-261).
TimerFires ==
    /\ ~unloaded
    /\ timers # <<>>
    /\ Head(timers).near
    /\ timers' = Tail(timers)
    /\ fired' = Head(timers).kind
    /\ IF Head(timers).kind = "scrollToBottom"
       THEN scrollTo("bottom") /\ UNCHANGED pressed
       ELSE pressed' = FALSE /\ UNCHANGED scrollTarget
    /\ UNCHANGED <<loadVars, vHeld, unloaded, scrollY, active,
                   visible, terminalHidden, expanded, hintHidden,
                   navRequested, error>>

Keys == {"v", "V", "x"}

toLowerCase(key) == IF key = "V" THEN "v" ELSE key

\* lines 224-236, with document.activeElement as it is when the key goes
\* down. Reading tagName of a null activeElement throws.
KeyDown(key, metaKey, ctrlKey, activeElement) ==
    /\ ~unloaded
    /\ present.cornerLogo
    /\ IF toLowerCase(key) = "v" /\ ~metaKey /\ ~ctrlKey
       THEN IF activeElement = Null
            THEN error' = TRUE /\ UNCHANGED <<pressed, vHeld>>
            ELSE /\ IF /\ activeElement.tagName # "INPUT"
                       /\ activeElement.tagName # "TEXTAREA"
                       /\ ~activeElement.isContentEditable
                    THEN pressed' = TRUE /\ vHeld' = TRUE
                    ELSE UNCHANGED <<pressed, vHeld>>
                 /\ UNCHANGED error
       ELSE UNCHANGED <<pressed, vHeld, error>>
    /\ NoCallback
    /\ UNCHANGED <<loadVars, unloaded, scrollY, active,
                   visible, terminalHidden, expanded, hintHidden, timers,
                   scrollTarget, navRequested>>

\* lines 238-242
KeyUp(key) ==
    /\ ~unloaded
    /\ present.cornerLogo
    /\ IF toLowerCase(key) = "v"
       THEN pressed' = FALSE /\ vHeld' = FALSE
       ELSE UNCHANGED <<pressed, vHeld>>
    /\ NoCallback
    /\ UNCHANGED <<loadVars, unloaded, scrollY, active,
                   visible, terminalHidden, expanded, hintHidden, timers,
                   scrollTarget, navRequested, error>>

\* The navigation a click has started (lines 217, 256) replaces the
\* document: its pending timers are discarded and its handlers run no more.
Unload ==
    /\ navRequested # NoNavigation /\ ~unloaded
    /\ unloaded' = TRUE
    /\ timers' = <<>>
    /\ NoCallback
    /\ UNCHANGED <<loadVars, vHeld, scrollY, active, visible, terminalHidden,
                   expanded, pressed, hintHidden, scrollTarget, navRequested,
                   error>>

Next ==
    \/ \E y \in ScrollPositions : Scroll(y)
    \/ SmoothScrollArrives
    \/ \E reported \in SUBSET DOMAIN layout.sections :
         \E intersecting \in SUBSET reported :
            Intersection(reported, intersecting)
    \/ CloseButtonClick
    \/ FooterOriginClick
    \/ LogoClick
    \/ CornerLogoClick
    \/ TimeElapses
    \/ TimerFires
    \/ \E key \in Keys, metaKey \in BOOLEAN, ctrlKey \in BOOLEAN :
         \E activeElement \in ActiveElements :
            KeyDown(key, metaKey, ctrlKey, activeElement)
    \/ \E key \in Keys : KeyUp(key)
    \/ Unload

Spec == Init /\ [][Next]_vars

\* The event loop runs the callback of a timer that is due, and time does
\* not stop.
InitFair ==
    /\ TextLoaded(LoadTime, AllPresent)
    /\ \E loc \in {HomeLocation, AboutLocation} :
          PageLoaded(HomeLayout, 0, loc, SiteHrefs)

SpecFair ==
    InitFair /\ [][Next]_vars /\ WF_vars(TimerFires) /\ WF_vars(TimeElapses)

-----------------------------------------------------------------------------
(* The dynamic text over the dates: the page is loaded at some time, and  *)
(* loaded again at later times.                                           *)

\* Date a is earlier than Date b.
Before(a, b) ==
    \/ a.year < b.year
    \/ a.year = b.year /\ a.month < b.month
    \/ a.year = b.year /\ a.month = b.month /\ a.day < b.day
    \/ a.year = b.year /\ a.month = b.month /\ a.day = b.day /\ a.ms < b.ms

InitDates ==
    /\ \E t \in Times, pr \in TextPresences : TextLoaded(t, pr)
    /\ PageLoaded(HomeLayout, 0, HomeLocation, SiteHrefs)

\* The document is loaded again at the later time t: lines 87-101 run anew.
Reload(t) ==
    /\ Before(now, t)
    /\ now' = t
    /\ present' = present
    /\ DynamicContent(t)
    /\ UNCHANGED pageVars

NextDates == \E t \in Times : Reload(t)

SpecDates == InitDates /\ [][NextDates]_vars

-----------------------------------------------------------------------------
(* The scroll listener over the layouts *)

InitNav ==
    /\ TextLoaded(LoadTime, AllPresent)
    /\ \E L \in Layouts : \E y \in ScrollYs(L) :
          PageLoaded(L, y, HomeLocation, SiteHrefs)

NextNav == \E y \in ScrollPositions : Scroll(y)

SpecNav == InitNav /\ [][NextNav]_vars

-----------------------------------------------------------------------------
(* The two logo listeners over the locations and the markup *)

\* The fragment of the location changes within the document, as by a click
\* on a navigation link; the scrolling it causes is a scroll event.
HashChange(hash) ==
    /\ ~unloaded
    /\ hash # location.hash
    /\ location' = [location EXCEPT !.hash = hash]
    /\ NoCallback
    /\ UNCHANGED <<textVars, present, layout, anchorHref, isHomePage,
                   vHeld, unloaded, scrollY, active, visible, terminalHidden,
                   expanded, pressed, hintHidden, timers, scrollTarget,
                   navRequested, error>>

InitLogo ==
    /\ TextLoaded(LoadTime, AllPresent)
    /\ \E loc \in Locations, hrefs \in AnchorHrefs :
          PageLoaded(HomeLayout, 0, loc, hrefs)

NextLogo ==
    \/ LogoClick
    \/ CornerLogoClick
    \/ \E hash \in Hashes : HashChange(hash)
    \/ \E y \in ScrollPositions : Scroll(y)
    \/ SmoothScrollArrives
    \/ TimerFires
    \/ Unload

SpecLogo == InitLogo /\ [][NextLogo]_vars

-----------------------------------------------------------------------------
(* Properties of updateActiveNav *)

navLinks == layout.navLinks
sections == sectionsWithId(layout)
scrollPos == scrollY + 100
AtBottom == layout.innerHeight + scrollY >= layout.bodyHeight - 50
AboveFirst == Len(sections) > 0 /\ scrollPos < sections[1].top
Containing ==
    {i \in DOMAIN sections :
        /\ sections[i].top <= scrollPos
        /\ scrollPos < sections[i].top + sections[i].height}
LastLink == IF Len(navLinks) > 0 THEN {Len(navLinks)} ELSE {}
Largest(S) == CHOOSE i \in S : \A j \in S : j <= i

\* C1 as stated: at most one navigation link carries "active" after
\* updateActiveNav has run at load and after any scroll events, in any
\* layout.
C1_AtMostOneActive == Cardinality(active) <= 1

\* C1 as amended: the links that carry "active" all have the same href, so
\* at most one link is active when no two navigation links share an href.
C1_ActiveLinksShareHref ==
    \A i \in active, j \in active : navLinks[i] = navLinks[j]

C1_Witness ==
    /\ hintHidden
    /\ Len(navLinks) = 2 /\ navLinks[1] # navLinks[2]
    /\ scrollY = 200 /\ ~AtBottom
    /\ Cardinality(active) = 1

\* C2: whenever the bottom threshold is reached the last navigation link
\* is the one and only active link, whatever section the position lies in.
C2_BottomActivatesLastLink == AtBottom => active = LastLink

C2_Witness ==
    /\ hintHidden
    /\ AtBottom /\ scrollY > 0
    /\ \E i \in Containing :
          /\ LinksOf(navLinks, sections[i].id) # {}
          /\ Len(navLinks) \notin LinksOf(navLinks, sections[i].id)
    /\ active = {Len(navLinks)}

\* C3 as stated: below the bottom threshold no link is active above the
\* first section; otherwise the links of the sections whose span contains
\* scrollY + headerOffset are the active ones; none if no span contains it.
C3_LinkOfContainingSection ==
    ~AtBottom =>
        IF AboveFirst THEN active = {}
        ELSE active =
               {l \in DOMAIN navLinks :
                   \E i \in Containing : navLinks[l] = <<"#">> \o sections[i].id}

\* C3 as amended: ... otherwise the active links are those whose href is
\* "#" + id of the last section, in document order, whose span contains
\* scrollY + headerOffset; none if no span contains it.
C3_LinkOfLastContainingSection ==
    ~AtBottom =>
        IF AboveFirst \/ Containing = {} THEN active = {}
        ELSE active =
               {l \in DOMAIN navLinks :
                   navLinks[l] = <<"#">> \o sections[Largest(Containing)].id}

C3_Witness ==
    /\ hintHidden
    /\ ~AtBottom /\ ~AboveFirst
    /\ Cardinality(Containing) = 2
    /\ navLinks = << <<"#">> \o sections[1].id, <<"#">> \o sections[2].id >>
    /\ sections[1].id # sections[2].id
    /\ active = {2}

-----------------------------------------------------------------------------
(* Properties of the dynamic text *)

DigitValue(c) == CHOOSE d \in 0..9 : Digit(d) = c
IsDigit(c) == \E d \in 0..9 : Digit(d) = c

RECURSIVE ParseNat(_)
ParseNat(str) ==
    IF str = <<>> THEN 0
    ELSE 10 * ParseNat(SubSeq(str, 1, Len(str) - 1)) + DigitValue(str[Len(str)])

\* The integer a rendered string starts with.
LeadingInt(str) ==
    LET digits == {k \in 0..Len(str) : \A j \in 1..k : IsDigit(str[j])}
        n == Largest(digits)
    IN  IF str # <<>> /\ str[1] = "-"
        THEN 0 - ParseNat(SubSeq(str, 2, Largest({k \in 1..Len(str) :
                              \A j \in 2..k : IsDigit(str[j])})))
        ELSE ParseNat(SubSeq(str, 1, n))

\* k years of 365.25 days as [days, ms].
YearsOfMs(k) ==
    [days |-> 365 * k + (6 * k) \div 24, ms |-> ((6 * k) % 24) * 3600000]

NoLonger(a, b) == a.days < b.days \/ (a.days = b.days /\ a.ms <= b.ms)
Shorter(a, b) == a.days < b.days \/ (a.days = b.days /\ a.ms < b.ms)

elapsed == DateDiff(now, yoeStartDate)
yoeYears == LeadingInt(yoeText)

\* yoeText is n followed by "+" where n - 5 is the number of whole years
\* of 365.25 days in the time elapsed since the milestone.
YoeIsFloor ==
    /\ yoeText = NumberToString(yoeYears) \o <<"+">>
    /\ NoLonger(YearsOfMs(yoeYears - 5), elapsed)
    /\ Shorter(elapsed, YearsOfMs(yoeYears - 4))

\* C5: at or after the milestone calculateYOE gives floor(5 + elapsed /
\* 365.25 days) followed by "+", "5+" at the milestone itself, and its
\* integer part never decreases as the time advances.
C5_YoeFloorAndMonotone ==
    /\ []((present.yoe /\ ~Before(now, yoeStartDate)) =>
            /\ YoeIsFloor
            /\ now = yoeStartDate => yoeText = <<"5", "+">>)
    /\ [][(present.yoe /\ ~Before(now, yoeStartDate)) =>
            LeadingInt(yoeText') >= LeadingInt(yoeText)]_vars

C5_Witness ==
    /\ present.yoe
    /\ now = [year |-> 2025, month |-> 8, day |-> 10, ms |-> 21600000]
    /\ yoeText = <<"6", "+">>

\* The months from the tenure start month to the month of now.
monthsElapsed ==
    (now.year * 12 + now.month)
      - (crunchrStartDate.year * 12 + crunchrStartDate.month)

\* Where the part ending in the two letters a, b ends in the string, and
\* the number written before it.
PartEnds(str, a, b) ==
    {i \in 2..Len(str) : str[i - 1] = a /\ str[i] = b}
PartNumber(str, a, b) ==
    LET e == Largest(PartEnds(str, a, b)) - 2
        starts == {k \in 1..(e + 1) : \A j \in k..e : IsDigit(str[j])}
        st == CHOOSE k \in starts : \A j \in starts : k <= j
    IN  IF PartEnds(str, a, b) = {} THEN 0 ELSE ParseNat(SubSeq(str, st, e))
HasYr == PartEnds(crunchrText, "y", "r") # {}
HasMo == PartEnds(crunchrText, "m", "o") # {}
Spaces == {i \in DOMAIN crunchrText : crunchrText[i] = " "}

\* C6 as stated: for any date both components are non-negative, a part is
\* in the string exactly when its component is non-zero, and exactly one
\* space joins the parts when both are there.
C6_PartsIffNonZero ==
    present.crunchr =>
        /\ crunchrYears(now) >= 0 /\ crunchrMonths(now) >= 0
        /\ HasYr <=> crunchrYears(now) # 0
        /\ HasMo <=> crunchrMonths(now) # 0
        /\ Cardinality(Spaces) = IF HasYr /\ HasMo THEN 1 ELSE 0

\* C6 as amended: for any date the month component is in 0..11 and the
\* year component is non-negative from the start month on (negative
\* before it); the "Nyr" part is in the string exactly when the year
\* component is positive, the "Nmo" part exactly when the month component
\* is non-zero, and exactly one space, after "Nyr", joins them when both
\* are there.
C6_PartsIffPositive ==
    present.crunchr =>
        /\ crunchrMonths(now) \in 0..11
        /\ crunchrYears(now) >= 0 <=> monthsElapsed >= 0
        /\ HasYr <=> crunchrYears(now) > 0
        /\ HasMo <=> crunchrMonths(now) # 0
        /\ Cardinality(Spaces) = IF HasYr /\ HasMo THEN 1 ELSE 0
        /\ HasYr /\ HasMo =>
              Spaces = {i + 1 : i \in PartEnds(crunchrText, "y", "r")}
        /\ HasYr => PartNumber(crunchrText, "y", "r") = crunchrYears(now)
        /\ HasMo => PartNumber(crunchrText, "m", "o") = crunchrMonths(now)

C6_Witness ==
    /\ present.crunchr
    /\ now.year = 2024 /\ now.month = 1
    /\ crunchrText = <<"1", "y", "r", " ", "2", "m", "o">>

\* C7: from the start date on the string reports monthsElapsed div 12
\* years and monthsElapsed mod 12 months; "1yr" on Dec 1 2023 and "1mo" on
\* Jan 15 2023.
C7_ElapsedYearsAndMonths ==
    (present.crunchr /\ ~Before(now, crunchrStartDate)) =>
        /\ PartNumber(crunchrText, "y", "r") = monthsElapsed \div 12
        /\ PartNumber(crunchrText, "m", "o") = monthsElapsed % 12
        /\ monthsElapsed % 12 \in 0..11
        /\ (now.year = 2023 /\ now.month = 11 /\ now.day = 1) =>
              crunchrText = <<"1", "y", "r">>
        /\ (now.year = 2023 /\ now.month = 0 /\ now.day = 15) =>
              crunchrText = <<"1", "m", "o">>

C7_Witness ==
    /\ present.crunchr
    /\ now.year = 2023 /\ now.month = 0 /\ now.day = 15
    /\ crunchrText = <<"1", "m", "o">>

-----------------------------------------------------------------------------
(* Properties of the handlers *)

\* C4: a section that carries "visible" carries it in every later state,
\* whatever observer callbacks, scrolls, clicks and key events follow.
C4_VisibleStays == [][visible \subseteq visible']_vars

C4_Witness ==
    /\ \E i \in observed(layout) : i \in visible
    /\ hintHidden /\ scrollY = 0
    /\ terminalHidden /\ expanded /\ pressed

\* C8: initialization and every handler complete without raising an
\* error, whichever optional elements (a focused element among them) are
\* absent.
C8_NoHandlerThrows == ~error

ScrollTimer == Timer("scrollToBottom", footnoteScrollDelay)
PressedTimer == Timer("removePressed", pressedDelay)
Pending(kind) == {i \in DOMAIN timers : timers[i].kind = kind}

\* C9: every click on .footer-origin flips "expanded", and the step that
\* flips it sets one timer for the scroll to the bottom when the element
\* is expanded afterwards, and none when it is collapsed.
C9_FooterToggleSchedules ==
    [][/\ FooterOriginClick => expanded' = ~expanded
       /\ expanded' # expanded =>
            IF expanded'
            THEN \E p \in 1..(Len(timers) + 1) :
                    timers' = InsertAt(timers, p, ScrollTimer)
            ELSE timers' = timers]_vars

C9_Witness ==
    /\ ~expanded
    /\ timers = <<ScrollTimer>>
    /\ fired = "none"

-----------------------------------------------------------------------------
(* Properties of the key and click handlers of the corner logo *)

\* The key is "v" or "V", neither Meta nor Ctrl is held, and the focused
\* element is not an INPUT, a TEXTAREA or content-editable.
KeyAccepted(key, metaKey, ctrlKey, activeElement) ==
    /\ key \in {"v", "V"}
    /\ ~metaKey /\ ~ctrlKey
    /\ activeElement.tagName \notin {"INPUT", "TEXTAREA"}
    /\ ~activeElement.isContentEditable

\* C11: a keydown adds "pressed" to the corner logo if and only if the key
\* is "v" or "V", neither Meta nor Ctrl is held and the focused element is
\* not an INPUT, a TEXTAREA or content-editable; a keyup of "v" or "V"
\* removes "pressed"; keydown and keyup of any other key leave it as it is.
C11_KeysTogglePressed ==
    [][/\ \A key \in Keys, metaKey \in BOOLEAN, ctrlKey \in BOOLEAN :
            \A activeElement \in ActiveElements :
               KeyDown(key, metaKey, ctrlKey, activeElement) =>
                  pressed' =
                     (pressed \/ KeyAccepted(key, metaKey, ctrlKey,
                                             activeElement))
       /\ \A key \in Keys :
            KeyUp(key) => pressed' = (pressed /\ key \notin {"v", "V"})]_vars

\* The location passes the home test of lines 206-210 and 247-251.
HomeView == IsHomePage(location)

\* What the claim says a click on either logo does.
HomeAwareNavigation ==
    IF HomeView
    THEN scrollTarget' = "top" /\ navRequested' = navRequested
    ELSE navRequested' = HomeUrl /\ scrollTarget' = scrollTarget

ScrollTargets == {"none", "top", "bottom"}
Navigations == {NoNavigation, "/", "/about.html"}

\* A click on either logo leaves the same scroll in progress and the same
\* navigation started.
SameNavigationAction ==
    (present.logo /\ present.cornerLogo /\ ~unloaded
        /\ Len(timers) < MaxTimers) =>
       \A st \in ScrollTargets, nav \in Navigations :
          ENABLED (LogoClick /\ scrollTarget' = st /\ navRequested' = nav)
             <=> ENABLED (CornerLogoClick /\ scrollTarget' = st
                             /\ navRequested' = nav)

SiteMarkup ==
    /\ anchorHref.cornerLogo = NoHref
    /\ anchorHref.logo = HomeUrl
    /\ isHomePage = HomeView

-----------------------------------------------------------------------------
(* Properties of the "hidden" flags *)

\* C13: the terminal panel becomes hidden exactly on a click on its close
\* button, the scroll hint becomes hidden exactly on a scroll event that
\* leaves scrollY above scrollThreshold, and once either is hidden it stays
\* hidden in every later step, scrolling back to the top included.
C13_HiddenIsOneWay ==
    [][/\ CloseButtonClick => terminalHidden'
       /\ terminalHidden' # terminalHidden => CloseButtonClick
       /\ (present.hint /\ scrollY' # scrollY /\ scrollY' > 50) => hintHidden'
       /\ hintHidden' # hintHidden =>
             (scrollY' # scrollY /\ scrollY' > 50)
       /\ terminalHidden => terminalHidden'
       /\ hintHidden => hintHidden']_vars

C13_Witness ==
    /\ terminalHidden /\ hintHidden
    /\ scrollY = 0
    /\ expanded /\ fired = "removePressed"

-----------------------------------------------------------------------------
(* Frame of the events *)

\* One timer of the kind has been added to the pending timers.
TimerAdded(t) ==
    \E p \in 1..(Len(timers) + 1) : timers' = InsertAt(timers, p, t)

\* C14: each event changes only its own state. A scroll event (scrollY
\* changes) changes only the active links and the scroll-hint flag, and
\* nothing else changes these; a step that hides the terminal changes
\* nothing else; a step that toggles "expanded" changes besides it only
\* the pending timers, by at most one scroll timer added; a step that
\* changes "pressed" or adds a removal timer changes besides only the
\* scroll in progress, the navigation and the pending timers, and a key
\* event changes only "pressed"; a step that changes the "visible" flags
\* changes nothing else.
C14_EventsChangeOwnStateOnly ==
    [][/\ scrollY' # scrollY =>
             UNCHANGED <<visible, terminalHidden, expanded, pressed, timers,
                         navRequested, location>>
       /\ (active' # active \/ hintHidden' # hintHidden) => scrollY' # scrollY
       /\ terminalHidden' # terminalHidden =>
             UNCHANGED <<scrollY, active, hintHidden, visible, expanded,
                         pressed, timers, scrollTarget, navRequested,
                         location>>
       /\ expanded' # expanded =>
             /\ UNCHANGED <<scrollY, active, hintHidden, visible,
                            terminalHidden, pressed, scrollTarget,
                            navRequested, location>>
             /\ timers' = timers \/ TimerAdded(ScrollTimer)
       /\ (pressed' # pressed \/ TimerAdded(PressedTimer)) =>
             UNCHANGED <<scrollY, active, hintHidden, visible,
                         terminalHidden, expanded, location>>
       /\ (pressed' # pressed /\ timers' = timers) =>
             UNCHANGED <<scrollTarget, navRequested>>
       /\ visible' # visible =>
             UNCHANGED <<scrollY, active, hintHidden, terminalHidden,
                         expanded, pressed, timers, scrollTarget,
                         navRequested, location>>]_vars

C14_Witness ==
    /\ terminalHidden /\ expanded /\ pressed /\ hintHidden
    /\ visible = DOMAIN layout.sections
    /\ active # {}
    /\ Pending("scrollToBottom") # {} /\ Pending("removePressed") # {}

-----------------------------------------------------------------------------
(* The key held against the timed removal *)

\* C15: in every state between an accepted "v" keydown and the next "v"
\* keyup the corner logo carries "pressed", whatever corner-logo clicks
\* and firings of their removal timers come in between.
C15_PressedWhileHeld == vHeld => pressed

-----------------------------------------------------------------------------
(* The active links as a function of position and layout *)

\* C16: the links that carry "active" after updateActiveNav are those it
\* leaves at the current scroll position and layout from any set of links
\* active before: they depend on the position and the layout only, so that
\* two runs with different active links at the start and different scroll
\* histories that end at the same position and layout end with the same
\* links active.
C16_ActiveDependsOnPositionAndLayout ==
    \A act \in SUBSET DOMAIN navLinks :
        active = updateActiveNav(act, layout, scrollY)

C16_Witness ==
    /\ hintHidden
    /\ scrollY = 249 /\ ~AtBottom
    /\ Cardinality(active) = 2

=============================================================================
